---- MODULE Spec2Model ----
(***************************************************************************)
(* Model of acmed's certificate storage (acmed/src/storage.rs) and of its  *)
(* hook executor (acmed/src/hooks.rs).                                     *)
(*                                                                         *)
(* A behaviour follows one Storage value and one PersistKey: the files of  *)
(* another key live at other paths and put/get never touch them.           *)
(* put is followed statement by statement (pc), get_file is one step.      *)
(* put and get take &self: two threads may be inside them at once. The     *)
(* locals of the thread that runs are pc, put, hk, procs and log; those of *)
(* a second thread, where there is one, wait in ctx until it is switched   *)
(* in.                                                                     *)
(* What the operating system decides (an open, write, sync, chown, spawn   *)
(* or wait that fails, the exit status of a hook process) is a             *)
(* nondeterministic input of the step that asks for it.                    *)
(* Hook commands are external programs: what they do to the files is not   *)
(* part of the model, and the files that capture their output are at paths *)
(* of their own.                                                           *)
(***************************************************************************)
EXTENDS Integers, Sequences, FiniteSets, TLC

VARIABLES
    cfg,      \* the Storage value (storage.rs:43-61), fixed after construction
    kind,     \* key.kind of the PersistKey the behaviour is about
    umask,    \* file-creation mask of the acmed process (set of denied bits)
    fs,       \* the file system: path -> file
    pc,       \* position of the thread inside put ("idle" outside of it)
    put,      \* locals of the put in progress; its value and result are kept
    hk,       \* locals of call_multiple / call in progress
    procs,    \* history: the hook processes the current operation has spawned
    log,      \* history: what the current operation has done so far, in order
    got,      \* history: outcome of the last get_file since the last put
    ctx,      \* pc, put, hk, procs and log of a second thread while this one runs
    synced,   \* history: the writes synced since the last call began, in order
    life      \* history: how far the creation of each followed file has come

vars == <<cfg, kind, umask, fs, pc, put, hk, procs, log, got, ctx, synced, life>>

----------------------------------------------------------------------------
(* Bounds of the model *)

\* longest payload carried by a value given to put
MaxLen == 2
\* longest hook list of a Storage
MaxHooks == 2

----------------------------------------------------------------------------
(* Option and Result values *)

None == [some |-> FALSE]
Some(x) == [some |-> TRUE, v |-> x]

Ok == [ok |-> TRUE]
Err(e) == [ok |-> FALSE, err |-> e]
OkVal(x) == [ok |-> TRUE, val |-> x]

----------------------------------------------------------------------------
(* PersistKind, Format *)

Kinds == {"Certificate", "PrivateKey", "AccountPrivateKey"}
Formats == {"Pem", "Der"}

\* Format's Display implementation: the file extension
FormatToString(fmt) == IF fmt = "Pem" THEN "pem" ELSE "der"

----------------------------------------------------------------------------
(* Byte strings and the format converter.                                  *)
(* A PEM text is an armour around a payload: a BEGIN line naming what is   *)
(* encoded, the payload, the matching END line. DER is the bare payload.   *)

PayloadBytes == {"x", "y"}

IsKeyKind(k) == k \in {"PrivateKey", "AccountPrivateKey"}
BeginMark(k) == IF IsKeyKind(k) THEN "BEGIN-KEY" ELSE "BEGIN-CRT"
EndMark(k) == IF IsKeyKind(k) THEN "END-KEY" ELSE "END-CRT"

Pem(k, payload) == <<BeginMark(k)>> \o payload \o <<EndMark(k)>>

IsPayload(b) == Len(b) >= 1 /\ \A n \in 1..Len(b) : b[n] \in PayloadBytes

IsPem(k, b) ==
    /\ Len(b) >= 3
    /\ b[1] = BeginMark(k)
    /\ b[Len(b)] = EndMark(k)
    /\ IsPayload(SubSeq(b, 2, Len(b) - 1))

\* encoding::convert(data, from, to, kind): parse `data` as `from`, emit `to`
convert(data, from, to, k) ==
    IF from = "Pem"
    THEN IF ~IsPem(k, data) THEN Err("conversion")
         ELSE IF to = "Der" THEN OkVal(SubSeq(data, 2, Len(data) - 1))
              ELSE OkVal(data)
    ELSE IF ~IsPayload(data) THEN Err("conversion")
         ELSE IF to = "Pem" THEN OkVal(Pem(k, data))
              ELSE OkVal(data)

\* one payload of each length up to MaxLen; two of them differ in length and
\* in their first byte
Payload(n) == [m \in 1..n |-> IF (m + n) % 2 = 0 THEN "x" ELSE "y"]

\* the canonical-encoding values put is given for a key of kind k
Values(k) == {Pem(k, Payload(n)) : n \in 1..MaxLen}

----------------------------------------------------------------------------
(* Files *)

NoFile == [exists |-> FALSE]
FileOf(c, m, u, g) == [exists |-> TRUE, content |-> c, mode |-> m, uid |-> u, gid |-> g]

\* permission bits are the set of the bits that are set, among
\* "ur", "uw" (user), "gr" (group) and "or" (others)

\* write(2) of `new` at offset 0 of a file holding `old`: the bytes of `old`
\* beyond the end of `new` stay
WriteAt0(old, new) == new \o SubSeq(old, Len(new) + 1, Len(old))

----------------------------------------------------------------------------
(* Storage: permission class of a kind, owner parsing, path computation *)

\* Storage::get_file_mode
get_file_mode(self, k) ==
    IF k = "Certificate" THEN self.cert_file_mode ELSE self.pk_file_mode

Digits == {"0", "1", "2", "3", "4", "5", "6", "7", "8", "9"}
DigitOrder == <<"0", "1", "2", "3", "4", "5", "6", "7", "8", "9">>
DigitVal(c) == CHOOSE n \in 0..9 : DigitOrder[n + 1] = c

\* u.bytes().all(|b| b.is_ascii_digit()): true of the empty string
AllAsciiDigits(s) == \A n \in 1..Len(s) : s[n] \in Digits

\* u32::MAX, 4294967295, as a digit string
U32MaxDigits == <<"4", "2", "9", "4", "9", "6", "7", "2", "9", "5">>

RECURSIVE StripZeros(_)
StripZeros(s) ==
    IF Len(s) > 1 /\ s[1] = "0" THEN StripZeros(Tail(s)) ELSE s

\* a > b for digit strings of the same length
DigitsGreater(a, b) ==
    \E n \in 1..Len(a) :
        /\ \A m \in 1..(n - 1) : a[m] = b[m]
        /\ DigitVal(a[n]) > DigitVal(b[n])

\* str::parse::<u32>() of a string of ASCII digits: the value, written without
\* leading zeros, or an error when the string is empty or the value exceeds
\* u32::MAX
ParseU32(s) ==
    IF s = <<>> THEN Err("empty")
    ELSE LET d == StripZeros(s) IN
         IF Len(d) > Len(U32MaxDigits)
            \/ (Len(d) = Len(U32MaxDigits) /\ DigitsGreater(d, U32MaxDigits))
         THEN Err("overflow")
         ELSE OkVal(d)

\* mutant of OwnerId: the string is parsed without the digit test, so that a
\* symbolic name panics
OwnerIdUnwrapsNames(opt) ==
    IF ~opt.some THEN OkVal(None)
    ELSE IF AllAsciiDigits(opt.v) /\ ParseU32(opt.v).ok
         THEN OkVal(Some(ParseU32(opt.v).val))
         ELSE Err("panic")

\* one of the two `let uid = match uid {...}` blocks of set_owner: the id to
\* hand to chown (None: leave unchanged), or a panic of unwrap()
OwnerId(opt) ==
    IF ~opt.some THEN OkVal(None)
    ELSE IF AllAsciiDigits(opt.v)
         THEN LET r == ParseU32(opt.v) IN
              IF r.ok THEN OkVal(Some(r.val)) ELSE Err("panic")
         ELSE OkVal(None)

\* the (owner, group) pair set_owner selects for a kind
OwnerConfig(self, k) ==
    IF k = "Certificate"
    THEN <<self.cert_file_owner, self.cert_file_group>>
    ELSE <<self.pk_file_owner, self.pk_file_group>>

\* get_file_name!
get_file_name(self, k, fmt) ==
    LET kd == CASE k = "Certificate" -> "crt"
                [] k = "PrivateKey" -> "pk"
                [] k = "AccountPrivateKey" -> "pk"
    IN <<self.crt_name, "_", self.algo, ".", kd, ".", FormatToString(fmt)>>

\* mutant of get_file_path: the account key is not told from the others, every
\* kind is kept in the certificate directory under the certificate's name
GetFilePathOneBase(self, k, fmt) ==
    LET file_name == get_file_name(self, k, fmt)
    IN [file_directory |-> self.crt_directory,
        file_name |-> file_name,
        file_path |-> <<self.crt_directory, "/">> \o file_name]

\* Storage::get_file_path: the FileData of a (kind, format)
get_file_path(self, k, fmt) ==
    LET base_path == IF k = "AccountPrivateKey" THEN self.account_directory
                     ELSE self.crt_directory
        file_name == IF k = "AccountPrivateKey"
                     THEN <<self.account_name, ".", FormatToString(fmt)>>
                     ELSE get_file_name(self, k, fmt)
    IN [file_directory |-> base_path,
        file_name |-> file_name,
        file_path |-> <<base_path, "/">> \o file_name]

----------------------------------------------------------------------------
(* Hooks *)

\* Handlebars::render_template(template, data) with data a FileData
\* a template is the name of one field in braces, or is malformed
render_template(template, data) ==
    CASE template = "{{file_name}}" -> OkVal(data.file_name)
      [] template = "{{file_directory}}" -> OkVal(<<data.file_directory>>)
      [] template = "{{file_path}}" -> OkVal(data.file_path)
      [] template = "/var/log/{{file_name}}.out" ->
            OkVal(<<"/var/log/">> \o data.file_name \o <<".out">>)
      [] template = "/var/log/{{file_name}}.err" ->
            OkVal(<<"/var/log/">> \o data.file_name \o <<".err">>)
      [] OTHER -> Err("template")

\* the shapes of Hook the model draws from: what is configured, and whether
\* it renders
HookFull == [cmd |-> "/bin/full", args |-> Some(<<"{{file_name}}", "{{file_directory}}">>),
             stdout |-> Some("/var/log/{{file_name}}.out"),
             stderr |-> Some("/var/log/{{file_name}}.err"),
             stdin |-> Some("{{file_path}}")]
HookPlain == [cmd |-> "/bin/plain", args |-> None, stdout |-> None, stderr |-> None,
              stdin |-> None]
HookBadStdin == [cmd |-> "/bin/badin", args |-> None, stdout |-> None, stderr |-> None,
                 stdin |-> Some("{{#bad")]
HookBadArgs == [cmd |-> "/bin/badarg", args |-> Some(<<"{{file_name}}", "{{#bad">>),
                stdout |-> None, stderr |-> None, stdin |-> None]
HookBadOut == [cmd |-> "/bin/badout", args |-> None, stdout |-> Some("{{#bad"),
               stderr |-> None, stdin |-> None]
HookShapes == {HookFull, HookPlain, HookBadStdin, HookBadArgs, HookBadOut}

\* render every argument template in order; the first failure is the result
RECURSIVE RenderArgs(_, _)
RenderArgs(lst, data) ==
    IF lst = <<>> THEN OkVal(<<>>)
    ELSE LET s == render_template(Head(lst), data) IN
         IF ~s.ok THEN s
         ELSE LET rest == RenderArgs(Tail(lst), data) IN
              IF ~rest.ok THEN rest ELSE OkVal(<<s.val>> \o rest.val)

----------------------------------------------------------------------------
(* The Storage values and the initial file systems of the model *)

MkHook(list, n, shape) ==
    [name |-> <<list, n>>, cmd |-> shape.cmd, args |-> shape.args,
     stdout |-> shape.stdout, stderr |-> shape.stderr, stdin |-> shape.stdin]

\* the hook list `list` holding hooks of the given shapes
MkHooks(list, shapes) == [n \in 1..Len(shapes) |-> MkHook(list, n, shapes[n])]

\* acmed's defaults: certificates 0644, keys 0600
DefaultCertMode == {"ur", "uw", "gr", "or"}
DefaultPkMode == {"ur", "uw"}

MkStorage(formats, owners, pre, post) ==
    [account_directory |-> "/etc/acmed/accounts",
     account_name |-> "account",
     crt_directory |-> "/etc/acmed/certs",
     crt_name |-> "example",
     crt_name_format |-> "{{name}}_{{algo}}.{{kind}}.{{ext}}",
     formats |-> formats,
     algo |-> "rsa",
     cert_file_mode |-> DefaultCertMode,
     cert_file_owner |-> owners[1],
     cert_file_group |-> owners[2],
     pk_file_mode |-> DefaultPkMode,
     pk_file_owner |-> owners[3],
     pk_file_group |-> owners[4],
     file_pre_create_hooks |-> MkHooks("file_pre_create_hooks", pre),
     file_post_create_hooks |-> MkHooks("file_post_create_hooks", post),
     file_pre_edit_hooks |-> MkHooks("file_pre_edit_hooks", pre),
     file_post_edit_hooks |-> MkHooks("file_post_edit_hooks", post)]

\* the non-empty lists of formats without repetition
FormatLists == {<<"Pem">>, <<"Der">>, <<"Pem", "Der">>, <<"Der", "Pem">>}

\* owner and group strings: absent, numeric, a symbolic name
OwnerStrings == {None, Some(<<"4", "2">>), Some(<<"w", "w", "w">>)}

\* every path the Storage can compute
AllPaths(self) == {get_file_path(self, k, f).file_path : k \in Kinds, f \in Formats}

\* effective user and group of the acmed process: the owner of what it creates
EUid == <<"0">>
EGid == <<"0">>

\* a file left by an earlier run: the longest value in the file's format, with
\* permission bits (0640) that are neither class's configured mode
LegacyMode == {"ur", "uw", "gr"}
LegacyFile(k, fmt) ==
    FileOf(convert(Pem(k, Payload(MaxLen)), "Pem", fmt, k).val, LegacyMode, EUid, EGid)

\* self.formats.contains(fmt)
Configured(self, fmt) == \E n \in 1..Len(self.formats) : self.formats[n] = fmt

\* the file systems a behaviour may start from: each file the Storage keeps
\* for the key is absent or left by an earlier run; every other file is absent
InitFiles(self, k) ==
    {f \in [AllPaths(self) -> {NoFile} \cup {LegacyFile(k, fmt) : fmt \in Formats}] :
        \A kk \in Kinds, fmt \in Formats :
            LET p == get_file_path(self, kk, fmt).file_path IN
            /\ (kk # k \/ ~Configured(self, fmt)) => f[p] = NoFile
            /\ f[p] \in {NoFile, LegacyFile(k, fmt)}}

Umasks == {{}, {"gr", "or"}}

NoPut == [value |-> <<>>, i |-> 0, file_exists |-> FALSE, result |-> "none", err |-> "-"]
NoCall == [phase |-> "-", list |-> "-", j |-> 0, step |-> "-", result |-> Ok,
           status |-> "-"]
NoGet == [op |-> "-", kind |-> "-", fmt |-> "-", src_fmt |-> "-", path |-> <<>>,
          converted |-> FALSE, tag |-> "-", bytes |-> <<>>, err |-> "-"]

\* the file system of a first run: nothing is stored yet
NoFiles(self) == [p \in AllPaths(self) |-> NoFile]

\* the locals of a thread that has not called anything yet
NoThread == [pc |-> "idle", put |-> NoPut, hk |-> NoCall, procs |-> <<>>, log |-> <<>>]

\* the creation of a file, as far as it has come: no put has tried it, a put
\* failed before it opened the file, the file was opened, the post-create
\* hooks have completed
LifeStages == {"absent", "failed", "opened", "created"}

\* the history `l` with the file at path `p` in stage `stage`, if it is followed
Follow(l, p, stage) == IF p \in DOMAIN l THEN [l EXCEPT ![p] = stage] ELSE l

\* threads: whether a second thread uses the Storage; followed: whether the
\* creation of the files is followed
InitFull(storages, kinds, umasks, legacy, threads, followed) ==
    /\ cfg \in storages
    /\ kind \in kinds
    /\ umask \in umasks
    /\ fs \in IF legacy THEN InitFiles(cfg, kind) ELSE {NoFiles(cfg)}
    /\ pc = "idle"
    /\ put = NoPut
    /\ hk = NoCall
    /\ procs = <<>>
    /\ log = <<>>
    /\ got = NoGet
    /\ ctx = IF threads THEN Some(NoThread) ELSE None
    /\ synced = <<>>
    /\ life = [p \in IF followed THEN AllPaths(cfg) ELSE {} |->
                  IF fs[p].exists THEN "created" ELSE "absent"]

\* one thread, no file followed
InitWith(storages, kinds, umasks, legacy) ==
    InitFull(storages, kinds, umasks, legacy, FALSE, FALSE)

----------------------------------------------------------------------------
(* put: storage.rs:169-212 *)

\* mutant of CurFmt: the loop variable is not used, the first format is
CurFmtFirst == cfg.formats[1]

\* `fmt` of the iteration in progress
CurFmt == cfg.formats[put.i]
\* `file_data`
CurData == get_file_path(cfg, kind, CurFmt)
CurPath == CurData.file_path

HookList(name) ==
    CASE name = "file_pre_create_hooks" -> cfg.file_pre_create_hooks
      [] name = "file_post_create_hooks" -> cfg.file_post_create_hooks
      [] name = "file_pre_edit_hooks" -> cfg.file_pre_edit_hooks
      [] name = "file_post_edit_hooks" -> cfg.file_post_edit_hooks

\* `hook` of the call in progress
CurHook == HookList(hk.list)[hk.j]

\* entries of the history: what put does to the file of the iteration ...
FileEvent(ev) ==
    [ev |-> ev, i |-> put.i, path |-> CurPath, existed |-> put.file_exists,
     list |-> "-", j |-> 0, at |-> "-", err |-> "-"]

\* ... and what call_multiple and call do, with the FileData they were given
HookEvent(ev, list, j, at, err) ==
    [ev |-> ev, i |-> put.i, path |-> CurData.file_path, existed |-> put.file_exists,
     list |-> list, j |-> j, at |-> at, err |-> err]

\* mutant of PreHooks: the hooks before the write are the pre-create hooks,
\* whether the file exists or not
PreHooksAlwaysCreate(file_exists) == "file_pre_create_hooks"

\* `if file_exists {pre_edit} else {pre_create}`
PreHooks(file_exists) ==
    IF file_exists THEN "file_pre_edit_hooks" ELSE "file_pre_create_hooks"

\* mutant of PostHooks: the post hooks do not depend on file_exists
PostHooksAlwaysEdit(file_exists) == "file_post_edit_hooks"

\* `if file_exists {post_edit} else {post_create}`
PostHooks(file_exists) ==
    IF file_exists THEN "file_post_edit_hooks" ELSE "file_post_create_hooks"

\* mutant of PutFail: the error is noted and the loop goes on with the next
\* format instead of returning
PutFailNextFormat(e) ==
    /\ pc' = "for"
    /\ put' = [put EXCEPT !.i = @ + 1, !.err = e]

\* put returns Err: every `?` of put
PutFail(e) ==
    /\ pc' = "returned"
    /\ put' = [put EXCEPT !.result = "Err", !.err = e]

\* the driver calls put(key, value)
PutBegin(value) ==
    /\ pc \in {"idle", "returned"}
    /\ pc' = "for"
    /\ put' = [value |-> value, i |-> 1, file_exists |-> FALSE, result |-> "none",
               err |-> "-"]
    /\ hk' = NoCall
    /\ procs' = <<>>
    /\ log' = <<>>
    /\ got' = NoGet
    /\ synced' = <<>>
    /\ UNCHANGED <<cfg, kind, umask, ctx, life, fs>>

\* head of `for fmt in self.formats.iter()`, up to the call of the pre hooks
PutFor ==
    /\ pc = "for"
    /\ put.i <= Len(cfg.formats)
    /\ LET file_exists == fs[CurPath].exists
           list == PreHooks(file_exists) IN
       /\ put' = [put EXCEPT !.file_exists = file_exists]
       /\ hk' = [NoCall EXCEPT !.phase = "pre", !.list = list, !.j = 1, !.step = "iter"]
       /\ log' = log \o <<[FileEvent("target") EXCEPT !.existed = file_exists],
                          [HookEvent("cm_begin", list, 0, "-", "-")
                              EXCEPT !.existed = file_exists]>>
    /\ pc' = "call_multiple"
    /\ UNCHANGED <<cfg, kind, umask, ctx, synced, life, fs, procs, got>>

\* the loop is over: Ok(())
PutReturn ==
    /\ pc = "for"
    /\ put.i > Len(cfg.formats)
    /\ pc' = "returned"
    /\ put' = [put EXCEPT !.result = "Ok"]
    /\ UNCHANGED <<cfg, kind, umask, ctx, synced, life, fs, hk, procs, log, got>>

\* OpenOptions::new().mode(m).write(true).create(true).open(path): an absent
\* file is created empty with the bits of m the umask allows, owned by the
\* process; an existing file is opened as it is (no truncation, no chmod)
OpenFile(f, m) ==
    IF f.exists THEN f ELSE FileOf(<<>>, m \ umask, EUid, EGid)

PutOpen ==
    /\ pc = "open"
    /\ \E ok \in BOOLEAN :
        IF ok
        THEN /\ fs' = [fs EXCEPT ![CurPath] = OpenFile(@, get_file_mode(cfg, kind))]
             /\ life' = IF fs[CurPath].exists THEN life
                        ELSE Follow(life, CurPath, "opened")
             /\ log' = Append(log, FileEvent("open"))
             /\ pc' = "write"
             /\ UNCHANGED put
        ELSE /\ PutFail("io")
             /\ life' = IF fs[CurPath].exists THEN life
                        ELSE Follow(life, CurPath, "failed")
             /\ UNCHANGED <<fs, log>>
    /\ hk' = [hk EXCEPT !.status = "-"]
    /\ UNCHANGED <<cfg, kind, umask, ctx, synced, procs, got>>

\* `match fmt {Der => convert(value, Pem, Der, kind)?, Pem => value}`: the
\* bytes to write
BytesFor(fmt, value) ==
    IF fmt = "Der" THEN convert(value, "Pem", "Der", kind) ELSE OkVal(value)

\* f.write_all(val): all of val is written from offset 0, or the call fails
\* after a proper prefix of it was written
PutWrite ==
    /\ pc = "write"
    /\ LET val == BytesFor(CurFmt, put.value) IN
       IF ~val.ok
       THEN /\ PutFail(val.err)
            /\ UNCHANGED <<fs, log>>
       ELSE \E n \in 0..Len(val.val) :
            /\ fs' = [fs EXCEPT ![CurPath].content = WriteAt0(@, SubSeq(val.val, 1, n))]
            /\ IF n = Len(val.val)
               THEN /\ log' = Append(log, FileEvent("write"))
                    /\ pc' = "sync"
                    /\ UNCHANGED put
               ELSE /\ PutFail("io")
                    /\ UNCHANGED log
    /\ UNCHANGED <<cfg, kind, umask, ctx, synced, life, hk, procs, got>>

\* f.sync_all()?
PutSync ==
    /\ pc = "sync"
    /\ \E ok \in BOOLEAN :
        IF ok
        THEN /\ log' = Append(log, FileEvent("sync"))
             /\ synced' = Append(synced, [path |-> CurPath, value |-> put.value])
             /\ pc' = "set_owner"
             /\ UNCHANGED put
        ELSE /\ PutFail("io")
             /\ UNCHANGED <<log, synced>>
    /\ UNCHANGED <<cfg, kind, umask, ctx, life, fs, hk, procs, got>>

\* chown(path, uid, gid): an id that is None is left as it is
Chown(f, uid, gid) ==
    [f EXCEPT !.uid = IF uid.some THEN uid.v ELSE @,
              !.gid = IF gid.some THEN gid.v ELSE @]

\* self.set_owner(path, kind)?, then the call of the post hooks.
\* unwrap() panics on a string that parse refuses. A chown with an id to set
\* may be refused by the system; a chown that sets nothing succeeds.
PutSetOwner ==
    /\ pc = "set_owner"
    /\ LET oc == OwnerConfig(cfg, kind)
           uid == OwnerId(oc[1])
           gid == OwnerId(oc[2])
           list == PostHooks(put.file_exists) IN
       IF ~uid.ok \/ ~gid.ok
       THEN /\ pc' = "panicked"
            /\ put' = [put EXCEPT !.result = "Panic"]
            /\ UNCHANGED <<fs, hk, log>>
       ELSE \E ok \in BOOLEAN :
            /\ (~uid.val.some /\ ~gid.val.some) => ok
            /\ IF ok
               THEN /\ fs' = [fs EXCEPT ![CurPath] = Chown(@, uid.val, gid.val)]
                    /\ log' = log \o <<FileEvent("chown"),
                                       HookEvent("cm_begin", list, 0, "-", "-")>>
                    /\ hk' = [NoCall EXCEPT !.phase = "post", !.list = list,
                                            !.j = 1, !.step = "iter"]
                    /\ pc' = "call_multiple"
                    /\ UNCHANGED put
               ELSE /\ PutFail("chown")
                    /\ UNCHANGED <<fs, hk, log>>
    /\ UNCHANGED <<cfg, kind, umask, ctx, synced, life, procs, got>>

----------------------------------------------------------------------------
(* call_multiple and call: hooks.rs:23-68 *)

\* exit statuses of a hook process: Some(code) or killed by a signal
ExitStatuses == {"code 0", "code 1", "signal"}

\* call returns Err(e)
CallErr(e) ==
    /\ hk' = [hk EXCEPT !.step = "ret", !.result = Err(e)]
    /\ log' = Append(log, HookEvent("ret_err", hk.list, hk.j, hk.step, e))

\* call goes on to its next step, after doing what `events` names
CallStep(next, events) ==
    /\ hk' = [hk EXCEPT !.step = next]
    /\ log' = log \o [n \in 1..Len(events) |->
                        HookEvent(events[n], hk.list, hk.j, hk.step, "-")]

\* `for hook in hooks.iter()`: the next hook is called
CallBegin ==
    /\ pc = "call_multiple"
    /\ hk.step = "iter"
    /\ hk.j <= Len(HookList(hk.list))
    /\ hk' = [hk EXCEPT !.step = "args", !.status = "-"]
    /\ log' = Append(log, HookEvent("call", hk.list, hk.j, "-", "-"))
    /\ UNCHANGED <<cfg, kind, umask, ctx, synced, life, fs, pc, put, procs, got>>

\* the list is exhausted: call_multiple returns Ok(()) and put goes on, to the
\* open of the file after the pre hooks, to the next format after the post hooks
CallMultipleOk ==
    /\ pc = "call_multiple"
    /\ hk.step = "iter"
    /\ hk.j > Len(HookList(hk.list))
    /\ log' = Append(log, HookEvent("cm_ok", hk.list, 0, "-", "-"))
    /\ IF hk.phase = "pre"
       THEN pc' = "open" /\ UNCHANGED <<put, hk>>
       ELSE pc' = "for" /\ put' = [put EXCEPT !.i = @ + 1] /\ hk' = NoCall
    /\ life' = IF hk.list = "file_post_create_hooks"
               THEN Follow(life, CurPath, "created") ELSE life
    /\ UNCHANGED <<cfg, kind, umask, ctx, synced, fs, procs, got>>

\* mutant of CallMultipleNext: the result of call is dropped (no `?`), the
\* loop goes on after a failure
CallMultipleNextDropsErr ==
    /\ pc = "call_multiple"
    /\ hk.step = "ret"
    /\ hk' = [hk EXCEPT !.j = @ + 1, !.step = "iter", !.result = Ok]
    /\ UNCHANGED <<cfg, kind, umask, ctx, synced, life, fs, pc, put, procs, log, got>>

\* mutant of CallMultipleNext: the error of the pre hooks is not propagated by
\* put (no `?` at storage.rs:175-178), which goes on to open the file
CallMultipleNextPreIgnored ==
    /\ pc = "call_multiple"
    /\ hk.step = "ret"
    /\ IF hk.result.ok
       THEN /\ hk' = [hk EXCEPT !.j = @ + 1, !.step = "iter"]
            /\ UNCHANGED <<pc, put, log>>
       ELSE /\ log' = Append(log, HookEvent("cm_err", hk.list, 0, "-", hk.result.err))
            /\ IF hk.phase = "pre"
               THEN pc' = "open" /\ UNCHANGED put
               ELSE PutFail(hk.result.err)
            /\ UNCHANGED hk
    /\ UNCHANGED <<cfg, kind, umask, ctx, synced, life, fs, procs, got>>

\* `call(data, &hook)?` has returned: on Ok the loop goes on, on Err
\* call_multiple returns it and so does put (map_err(to_acme_err)?)
CallMultipleNext ==
    /\ pc = "call_multiple"
    /\ hk.step = "ret"
    /\ IF hk.result.ok
       THEN /\ hk' = [hk EXCEPT !.j = @ + 1, !.step = "iter"]
            /\ UNCHANGED <<pc, put, log, life>>
       ELSE /\ PutFail(hk.result.err)
            /\ log' = Append(log, HookEvent("cm_err", hk.list, 0, "-", hk.result.err))
            /\ life' = IF hk.list = "file_pre_create_hooks"
                       THEN Follow(life, CurPath, "failed") ELSE life
            /\ UNCHANGED hk
    /\ UNCHANGED <<cfg, kind, umask, ctx, synced, fs, procs, got>>

\* the argument templates are rendered, in order
CallArgs ==
    /\ pc = "call_multiple"
    /\ hk.step = "args"
    /\ LET r == IF CurHook.args.some THEN RenderArgs(CurHook.args.v, CurData)
                ELSE OkVal(<<>>) IN
       IF r.ok THEN CallStep("stdout", <<>>) ELSE CallErr(r.err)
    /\ UNCHANGED <<cfg, kind, umask, ctx, synced, life, fs, pc, put, procs, got>>

\* get_hook_output!: Stdio::null() when nothing is configured, else the path is
\* rendered and the file created
HookOutput(out, next) ==
    IF ~out.some THEN CallStep(next, <<>>)
    ELSE LET path == render_template(out.v, CurData) IN
         IF ~path.ok THEN CallErr(path.err)
         ELSE \E ok \in BOOLEAN :
              IF ok THEN CallStep(next, <<"outfile">>) ELSE CallErr("io")

CallStdout ==
    /\ pc = "call_multiple"
    /\ hk.step = "stdout"
    /\ HookOutput(CurHook.stdout, "stderr")
    /\ UNCHANGED <<cfg, kind, umask, ctx, synced, life, fs, pc, put, procs, got>>

CallStderr ==
    /\ pc = "call_multiple"
    /\ hk.step = "stderr"
    /\ HookOutput(CurHook.stderr, "spawn")
    /\ UNCHANGED <<cfg, kind, umask, ctx, synced, life, fs, pc, put, procs, got>>

\* mutant of CallSpawn: the process is started and left to run, call returns
\* without writing its input or waiting for it
CallSpawnDetached ==
    /\ pc = "call_multiple"
    /\ hk.step = "spawn"
    /\ \E ok \in BOOLEAN :
        IF ok
        THEN /\ procs' = Append(procs, [hook |-> CurHook.name, state |-> "running"])
             /\ hk' = [hk EXCEPT !.step = "ret", !.result = Ok]
             /\ log' = log \o <<HookEvent("spawn", hk.list, hk.j, hk.step, "-"),
                                HookEvent("ret_ok", hk.list, hk.j, hk.step, "-")>>
        ELSE /\ CallErr("spawn")
             /\ UNCHANGED procs
    /\ UNCHANGED <<cfg, kind, umask, ctx, synced, life, fs, pc, put, got>>

\* Command::spawn()?: the hook process starts
CallSpawn ==
    /\ pc = "call_multiple"
    /\ hk.step = "spawn"
    /\ \E ok \in BOOLEAN :
        IF ok
        THEN /\ procs' = Append(procs, [hook |-> CurHook.name, state |-> "running"])
             /\ CallStep(IF CurHook.stdin.some THEN "stdin" ELSE "wait", <<"spawn">>)
        ELSE /\ CallErr("spawn")
             /\ UNCHANGED procs
    /\ UNCHANGED <<cfg, kind, umask, ctx, synced, life, fs, pc, put, got>>

\* `if hook.stdin.is_some()`: the text is rendered and written to the pipe
\* (the handle is there, the pipe was asked for); an error returns from call
\* with the Child dropped, which neither kills the process nor waits for it
CallStdin ==
    /\ pc = "call_multiple"
    /\ hk.step = "stdin"
    /\ LET data_in == render_template(CurHook.stdin.v, CurData) IN
       IF ~data_in.ok THEN CallErr(data_in.err)
       ELSE \E ok \in BOOLEAN :
            IF ok THEN CallStep("wait", <<"stdin">>) ELSE CallErr("io")
    /\ UNCHANGED <<cfg, kind, umask, ctx, synced, life, fs, pc, put, procs, got>>

\* the process spawned last has exited and been waited for
Reap(ps) == [ps EXCEPT ![Len(ps)].state = "waited"]

\* mutant of StatusResult: a status other than code 0 is an error
StatusResultChecked(status) == IF status = "code 0" THEN Ok ELSE Err("exit")

\* what call makes of the exit status: it is logged, nothing else
StatusResult(status) == Ok

\* cmd.wait()?: blocks until the process has exited, with whatever status; the
\* status is logged and call returns Ok(()). wait itself may fail.
CallWait ==
    /\ pc = "call_multiple"
    /\ hk.step = "wait"
    /\ \/ \E status \in ExitStatuses :
            LET r == StatusResult(status) IN
            /\ procs' = Reap(procs)
            /\ hk' = [hk EXCEPT !.step = "ret", !.result = r, !.status = status]
            /\ log' = log \o <<HookEvent("wait", hk.list, hk.j, hk.step, "-"),
                               HookEvent(IF r.ok THEN "ret_ok" ELSE "ret_err",
                                         hk.list, hk.j, hk.step,
                                         IF r.ok THEN "-" ELSE r.err)>>
       \/ /\ CallErr("io")
          /\ UNCHANGED procs
    /\ UNCHANGED <<cfg, kind, umask, ctx, synced, life, fs, pc, put, got>>

----------------------------------------------------------------------------
(* get_file and its callers: storage.rs:134-165, 214-216 *)

\* mutant of SrcFmt: the requested format is read even when not configured
SrcFmtNoFallback(self, fmt) == fmt

\* `if self.formats.contains(fmt) {fmt} else {self.formats.first().unwrap()}`
SrcFmt(self, fmt) ==
    IF Configured(self, fmt) THEN fmt ELSE self.formats[1]

\* mutant of ReadResult: no `contents.is_empty()` test
ReadResultNoEmptyTest(f, src_fmt, fmt, k, io) ==
    LET absent == [tag |-> "none", bytes |-> <<>>, converted |-> FALSE, err |-> "-"] IN
    IF ~f.exists THEN absent
    ELSE IF ~io THEN [absent EXCEPT !.tag = "err", !.err = "io"]
    ELSE IF src_fmt = fmt THEN [absent EXCEPT !.tag = "some", !.bytes = f.content]
    ELSE LET ret == convert(f.content, src_fmt, fmt, k) IN
         IF ret.ok
         THEN [absent EXCEPT !.tag = "some", !.bytes = ret.val, !.converted = TRUE]
         ELSE [absent EXCEPT !.tag = "err", !.err = ret.err, !.converted = TRUE]

\* the body of get_file from the `exists()` test on, for the file f at the
\* source path; io tells whether File::open and read_to_end succeed
ReadResult(f, src_fmt, fmt, k, io) ==
    LET absent == [tag |-> "none", bytes |-> <<>>, converted |-> FALSE, err |-> "-"] IN
    IF ~f.exists THEN absent
    ELSE IF ~io THEN [absent EXCEPT !.tag = "err", !.err = "io"]
    ELSE IF f.content = <<>> THEN absent
    ELSE IF src_fmt = fmt THEN [absent EXCEPT !.tag = "some", !.bytes = f.content]
    ELSE LET ret == convert(f.content, src_fmt, fmt, k) IN
         IF ret.ok
         THEN [absent EXCEPT !.tag = "some", !.bytes = ret.val, !.converted = TRUE]
         ELSE [absent EXCEPT !.tag = "err", !.err = ret.err, !.converted = TRUE]

\* mutant of GetFile: the file is opened the way put opens it, with
\* create(true), so that reading a file that is not there creates it
GetFileCreates(op, k, fmt) ==
    /\ pc \in {"idle", "returned"}
    /\ LET src_fmt == SrcFmt(cfg, fmt)
           file_data == get_file_path(cfg, k, src_fmt) IN
       \E io \in BOOLEAN :
           LET r == ReadResult(fs[file_data.file_path], src_fmt, fmt, k, io) IN
           /\ got' = [op |-> op, kind |-> k, fmt |-> fmt, src_fmt |-> src_fmt,
                      path |-> file_data.file_path, converted |-> r.converted,
                      tag |-> r.tag, bytes |-> r.bytes, err |-> r.err]
           /\ fs' = [fs EXCEPT ![file_data.file_path] =
                                   OpenFile(@, get_file_mode(cfg, k))]
    /\ pc' = "idle"
    /\ put' = [put EXCEPT !.i = 0, !.file_exists = FALSE, !.err = "-"]
    /\ hk' = NoCall
    /\ procs' = <<>>
    /\ log' = <<>>
    /\ synced' = <<>>
    /\ UNCHANGED <<cfg, kind, umask, ctx, life>>

\* Storage::get_file(kind, fmt). The locals of the put that returned before
\* are gone and the histories start again; the value and the result of that
\* put are kept.
GetFile(op, k, fmt) ==
    /\ pc \in {"idle", "returned"}
    /\ LET src_fmt == SrcFmt(cfg, fmt)
           file_data == get_file_path(cfg, k, src_fmt) IN
       \E io \in BOOLEAN :
           LET r == ReadResult(fs[file_data.file_path], src_fmt, fmt, k, io) IN
           got' = [op |-> op, kind |-> k, fmt |-> fmt, src_fmt |-> src_fmt,
                   path |-> file_data.file_path, converted |-> r.converted,
                   tag |-> r.tag, bytes |-> r.bytes, err |-> r.err]
    /\ pc' = "idle"
    /\ put' = [put EXCEPT !.i = 0, !.file_exists = FALSE, !.err = "-"]
    /\ hk' = NoCall
    /\ procs' = <<>>
    /\ log' = <<>>
    /\ synced' = <<>>
    /\ UNCHANGED <<cfg, kind, umask, ctx, life, fs>>

\* Persist::get(key): the canonical encoding of the key's kind
Get == GetFile("get", kind, "Pem")

\* Storage::get_certificate(fmt) and Storage::get_private_key(fmt)
GetCertificate == \E fmt \in Formats : GetFile("get_certificate", "Certificate", fmt)
GetPrivateKey == \E fmt \in Formats : GetFile("get_private_key", "PrivateKey", fmt)

----------------------------------------------------------------------------
(* Specifications *)

Put == \E value \in Values(kind) : PutBegin(value)

Next ==
    \/ Put
    \/ PutFor
    \/ PutReturn
    \/ CallBegin
    \/ CallMultipleOk
    \/ CallMultipleNext
    \/ CallArgs
    \/ CallStdout
    \/ CallStderr
    \/ CallSpawn
    \/ CallStdin
    \/ CallWait
    \/ PutOpen
    \/ PutWrite
    \/ PutSync
    \/ PutSetOwner
    \/ Get
    \/ GetCertificate
    \/ GetPrivateKey

\* the scheduler takes the thread that runs off the processor and puts the
\* second thread on it, between any two steps
Switch ==
    /\ ctx.some
    /\ pc' = ctx.v.pc
    /\ put' = ctx.v.put
    /\ hk' = ctx.v.hk
    /\ procs' = ctx.v.procs
    /\ log' = ctx.v.log
    /\ ctx' = Some([pc |-> pc, put |-> put, hk |-> hk, procs |-> procs, log |-> log])
    /\ UNCHANGED <<cfg, kind, umask, synced, life, fs, got>>

\* the hook lists of the Storage values that are not about hooks: a hook with
\* everything configured before the write, a bare one after it
PreShapes == <<HookFull>>
PostShapes == <<HookPlain>>

NoOwners == <<None, None, None, None>>

\* Spec: every list of formats and every kind, starting with nothing stored
Storages == {MkStorage(fl, NoOwners, PreShapes, PostShapes) : fl \in FormatLists}

Init == InitWith(Storages, Kinds, {{}}, FALSE)

Spec == Init /\ [][Next]_vars

\* SpecPerm: every owner and group setting under every umask, starting from
\* files an earlier run may have left
OwnerSettings ==
    {<<o, g, g, o>> : o \in OwnerStrings, g \in OwnerStrings}

PermStorages ==
    {MkStorage(fl, os, PreShapes, PostShapes) :
        fl \in {<<"Pem">>}, os \in OwnerSettings}

InitPerm == InitWith(PermStorages, Kinds, Umasks, TRUE)

SpecPerm == InitPerm /\ [][Next]_vars

\* SpecHooks: every list of at most MaxHooks hooks of every shape, the same
\* shapes in the four lists
HookLists == UNION {[1..n -> HookShapes] : n \in 0..MaxHooks}

HookStorages == {MkStorage(<<"Pem">>, NoOwners, l, l) : l \in HookLists}

InitHooks == InitWith(HookStorages, {"Certificate"}, {{}}, FALSE)

SpecHooks == InitHooks /\ [][Next]_vars

\* SpecConc: two threads use one Storage of one format for one key, with a
\* hook before the write and none after it
ConcStorages == {MkStorage(<<"Pem">>, NoOwners, PreShapes, <<>>)}

InitConc == InitFull(ConcStorages, {"Certificate"}, {{}}, FALSE, TRUE, FALSE)

NextConc == Next \/ Switch

SpecConc == InitConc /\ [][NextConc]_vars

\* SpecOwner: owners and groups that are strings of digits: the empty string,
\* a number with leading zeros, u32::MAX, u32::MAX + 1
DigitStrings ==
    {Some(<<>>), Some(<<"0", "4", "2">>), Some(U32MaxDigits),
     Some(<<"4", "2", "9", "4", "9", "6", "7", "2", "9", "6">>)}

DigitOwnerSettings == {<<o, g, o, g>> : o \in DigitStrings, g \in DigitStrings}

OwnerStorages ==
    {MkStorage(<<"Pem">>, os, PreShapes, PostShapes) : os \in DigitOwnerSettings}

InitOwner == InitWith(OwnerStorages, {"Certificate", "PrivateKey"}, {{}}, FALSE)

SpecOwner == InitOwner /\ [][Next]_vars

\* SpecLife: the creation of every file is followed, from nothing stored
LifeStorages ==
    {MkStorage(fl, NoOwners, PreShapes, PostShapes) : fl \in {<<"Pem">>, <<"Pem", "Der">>}}

InitLife == InitFull(LifeStorages, {"Certificate"}, {{}}, FALSE, FALSE, TRUE)

SpecLife == InitLife /\ [][Next]_vars

\* SpecLive: the thread inside put goes on as long as it can take a step; a
\* step that waits for a hook process can be taken once the process has exited
PutStep ==
    \/ PutFor \/ PutReturn \/ PutOpen \/ PutWrite \/ PutSync \/ PutSetOwner
    \/ CallBegin \/ CallMultipleOk \/ CallMultipleNext
    \/ CallArgs \/ CallStdout \/ CallStderr \/ CallSpawn \/ CallStdin \/ CallWait

InitLive == InitWith(Storages, {"Certificate"}, {{}}, FALSE)

SpecLive == InitLive /\ [][Next]_vars /\ WF_vars(PutStep)

\* SpecOwnerLive: the same thread under the owners and groups of SpecOwner
SpecOwnerLive == InitOwner /\ [][Next]_vars /\ WF_vars(PutStep)

----------------------------------------------------------------------------
(* Properties *)

Idx == 1..Len(log)
PathOf(k, fmt) == get_file_path(cfg, k, fmt).file_path
IsPrefix(a, b) == Len(a) <= Len(b) /\ SubSeq(b, 1, Len(a)) = a
PutReturnedOk == pc = "returned" /\ put.result = "Ok"

\* C1: a successful put(key, b) followed by get(key) returns exactly b when
\* the canonical encoding is configured, whatever the file held before
\* (a get that fails to open or read the file is left aside)
C1_PutThenGet ==
    (got.op = "get" /\ put.result = "Ok" /\ Configured(cfg, "Pem") /\ got.err # "io")
        => (got.tag = "some" /\ got.bytes = put.value)

\* the hooks called for the target of iteration i, in order
CallsOf(i) ==
    LET c == SelectSeq(log, LAMBDA e : e.ev = "call" /\ e.i = i)
    IN [n \in 1..Len(c) |-> <<c[n].list, c[n].j>>]

\* every hook of the pre list then every hook of the post list of one family
FamilyCalls(existed) ==
    LET pre == IF existed THEN cfg.file_pre_edit_hooks ELSE cfg.file_pre_create_hooks
        post == IF existed THEN cfg.file_post_edit_hooks ELSE cfg.file_post_create_hooks
        pn == IF existed THEN "file_pre_edit_hooks" ELSE "file_pre_create_hooks"
        qn == IF existed THEN "file_post_edit_hooks" ELSE "file_post_create_hooks"
    IN [n \in 1..Len(pre) |-> <<pn, n>>] \o [n \in 1..Len(post) |-> <<qn, n>>]

\* C2: for each encoding put processes, the hooks called are those of the
\* create family when the path did not exist before the pre hooks ran, of the
\* edit family when it did, and of no other list: the pre list then the post
\* list, all of both once the encoding is done
C2_HookFamily ==
    \A a \in Idx :
        log[a].ev = "target" =>
            /\ IsPrefix(CallsOf(log[a].i), FamilyCalls(log[a].existed))
            /\ put.i > log[a].i => CallsOf(log[a].i) = FamilyCalls(log[a].existed)

\* a put has succeeded that edited one file and created another
C2_Witness ==
    /\ PutReturnedOk
    /\ \E a, b \in Idx :
        /\ log[a].ev = "target" /\ log[a].existed
        /\ log[b].ev = "target" /\ ~log[b].existed

\* the history of one call_multiple: from its cm_begin at index a to its return
SegEnd(a) ==
    LET ends == {b \in (a + 1)..Len(log) : log[b].ev \in {"cm_ok", "cm_err"}}
    IN IF ends = {} THEN Len(log) + 1 ELSE CHOOSE b \in ends : \A c \in ends : b <= c
Seg(a) == SubSeq(log, a + 1, SegEnd(a) - 1)
SegCalls(a) == SelectSeq(Seg(a), LAMBDA e : e.ev \in {"call", "ret_ok", "ret_err"})
SegCount(a, ev, j) ==
    Cardinality({b \in 1..Len(Seg(a)) : Seg(a)[b].ev = ev /\ Seg(a)[b].j = j})

\* C3: call_multiple calls the hooks in list order, one at a time; after the
\* first failure no hook is called and that error is returned; without a
\* failure every hook has run exactly once and the result is Ok
C3_CallMultiple ==
    /\ \A n \in 1..(Len(procs) - 1) : procs[n].state = "waited"
    /\ \A a \in Idx :
        log[a].ev = "cm_begin" =>
            LET s == SegCalls(a)
                n == Len(HookList(log[a].list))
                e == SegEnd(a) IN
            /\ \A m \in 1..Len(s) :
                /\ s[m].list = log[a].list
                /\ IF m % 2 = 1
                   THEN s[m].ev = "call" /\ s[m].j = (m + 1) \div 2 /\ s[m].j <= n
                   ELSE s[m].ev \in {"ret_ok", "ret_err"} /\ s[m].j = m \div 2
                /\ s[m].ev = "ret_err" => m = Len(s)
                /\ s[m].ev = "ret_ok" =>
                      SegCount(a, "spawn", s[m].j) = 1 /\ SegCount(a, "wait", s[m].j) = 1
            /\ (e <= Len(log) /\ log[e].ev = "cm_ok") =>
                  Len(s) = 2 * n /\ \A m \in 1..Len(s) : s[m].ev # "ret_err"
            /\ (e <= Len(log) /\ log[e].ev = "cm_err") =>
                  /\ Len(s) >= 2 /\ s[Len(s)].ev = "ret_err"
                  /\ log[e].err = s[Len(s)].err
                  /\ put.result = "Err" /\ put.err = s[Len(s)].err
            /\ (e > Len(log) /\ Len(s) > 0 /\ s[Len(s)].ev = "ret_err") =>
                  hk.step = "ret" /\ ~hk.result.ok

\* the second hook of a list failed after the first had run
C3_Witness ==
    \E a \in Idx :
        /\ log[a].ev = "cm_begin"
        /\ SegEnd(a) <= Len(log) /\ log[SegEnd(a)].ev = "cm_err"
        /\ Len(SegCalls(a)) = 4

\* what get_file must return for a file: absent for no file and for an empty
\* one, the bytes otherwise
C4_Absent(f) == ~f.exists \/ f.content = <<>>

\* C4 as stated: get_file returns absent, never an error, whenever the file at
\* the source path does not exist or is empty, without calling the converter,
\* and returns bytes only for a non-empty file
C4_Original ==
    got.op # "-" =>
        LET f == fs[PathOf(got.kind, SrcFmt(cfg, got.fmt))] IN
        /\ C4_Absent(f) => (got.tag = "none" /\ ~got.converted)
        /\ got.tag = "some" => ~C4_Absent(f)

\* C4 as amended: absent for a file that does not exist; for an empty file,
\* absent unless the open or the read fails, which is returned as an error; the
\* converter is called in neither case; bytes only for a non-empty file
C4_GetAbsent ==
    got.op # "-" =>
        LET f == fs[PathOf(got.kind, SrcFmt(cfg, got.fmt))] IN
        /\ ~f.exists => (got.tag = "none" /\ ~got.converted)
        /\ (f.exists /\ f.content = <<>>) =>
              /\ ~got.converted
              /\ got.tag = "none" \/ (got.tag = "err" /\ got.err = "io")
        /\ got.tag = "some" => ~C4_Absent(f)
        /\ got.tag = "none" => C4_Absent(f)

\* get has answered absent for a file that exists and is empty
C4_Witness ==
    /\ got.op = "get" /\ got.tag = "none"
    /\ fs[got.path].exists /\ fs[got.path].content = <<>>

\* C5: get_file for a format that is not configured reads the file of the
\* first configured format and returns its conversion to the requested format;
\* for a configured format it returns that format's file as it is
C5_GetConverted ==
    got.op # "-" =>
        IF Configured(cfg, got.fmt)
        THEN /\ got.path = PathOf(got.kind, got.fmt)
             /\ ~got.converted
             /\ got.tag = "some" => got.bytes = fs[got.path].content
        ELSE LET first == cfg.formats[1]
                 f == fs[PathOf(got.kind, first)]
                 r == convert(f.content, first, got.fmt, got.kind) IN
             /\ got.path = PathOf(got.kind, first)
             /\ got.tag = "some" => (got.converted /\ r.ok /\ got.bytes = r.val)
             /\ (got.tag = "err" /\ got.err # "io") => (got.converted /\ ~r.ok)
             /\ got.converted => ~C4_Absent(f)

\* a PEM text was asked of a Storage that keeps DER only, and was returned
C5_Witness ==
    /\ got.tag = "some" /\ got.converted
    /\ got.fmt = "Pem" /\ cfg.formats = <<"Der">>
    /\ got.bytes = put.value

\* the mode, owner and group configured for the class of the key's kind
ClassMode == IF kind = "Certificate" THEN cfg.cert_file_mode ELSE cfg.pk_file_mode
ClassOwner == IF kind = "Certificate" THEN cfg.cert_file_owner ELSE cfg.pk_file_owner
ClassGroup == IF kind = "Certificate" THEN cfg.cert_file_group ELSE cfg.pk_file_group

\* C6: after a successful put every file it wrote has the permission bits
\* configured for the class of its kind, created by this put or not
C6_ModeAfterPut ==
    PutReturnedOk =>
        \A n \in 1..Len(cfg.formats) : fs[PathOf(kind, cfg.formats[n])].mode = ClassMode

\* a configured owner or group that is a number / that is absent or a name
IsNumeric(opt) ==
    opt.some /\ Len(opt.v) >= 1 /\ \A n \in 1..Len(opt.v) : opt.v[n] \in Digits
IsAbsentOrName(opt) ==
    ~opt.some \/ \E n \in 1..Len(opt.v) : opt.v[n] \notin Digits

EventsOf(i, ev) == {a \in Idx : log[a].i = i /\ log[a].ev = ev}

\* C8: a successful put has processed the formats in their order, each one
\* completely before the next: for each, one file opened and written at the
\* path of the format and one pre and one post call_multiple of one family,
\* all with the FileData of that format; if no file existed, the family is
\* create every time
C8_PerEncoding ==
    PutReturnedOk =>
        /\ \A a \in Idx : log[a].i \in 1..Len(cfg.formats)
        /\ \A a \in 1..(Len(log) - 1) : log[a].i <= log[a + 1].i
        /\ \A i \in 1..Len(cfg.formats) :
            LET cm == SelectSeq(log, LAMBDA e : e.i = i /\ e.ev = "cm_begin")
                t == SelectSeq(log, LAMBDA e : e.i = i /\ e.ev = "target") IN
            /\ \A a \in Idx : log[a].i = i => log[a].path = PathOf(kind, cfg.formats[i])
            /\ Cardinality(EventsOf(i, "open")) = 1
            /\ Cardinality(EventsOf(i, "write")) = 1
            /\ Cardinality(EventsOf(i, "cm_ok")) = 2
            /\ fs[PathOf(kind, cfg.formats[i])].exists
            /\ Len(t) = 1
            /\ Len(cm) = 2
            /\ <<cm[1].list, cm[2].list>> =
                  IF t[1].existed
                  THEN <<"file_pre_edit_hooks", "file_post_edit_hooks">>
                  ELSE <<"file_pre_create_hooks", "file_post_create_hooks">>

\* a put of [Pem, Der] has succeeded with no file there before: two files, the
\* create pair run twice
C8_Witness ==
    /\ PutReturnedOk
    /\ cfg.formats = <<"Pem", "Der">>
    /\ \A a \in Idx : log[a].ev = "target" => ~log[a].existed
    /\ Cardinality({a \in Idx : log[a].ev = "cm_begin"
                                  /\ log[a].list = "file_pre_create_hooks"}) = 2
    /\ Cardinality({a \in Idx : log[a].ev = "cm_begin"
                                  /\ log[a].list = "file_post_create_hooks"}) = 2

\* the first part of C9: a process that exits with a non-zero code or on a
\* signal does not fail call, call_multiple goes on with the next hook and put
\* with the write
C9_ExitIsNoFailure ==
    /\ hk.status \in {"code 1", "signal"} =>
          /\ hk.result.ok /\ put.result = "none"
          /\ \/ pc = "call_multiple" /\ hk.step \in {"ret", "iter"}
             \/ pc = "open"
    /\ \A a \in Idx :
          /\ log[a].ev = "wait" => (a < Len(log) /\ log[a + 1].ev = "ret_ok")
          /\ (log[a].ev = "ret_ok" /\ a < Len(log)) =>
                \/ log[a + 1].ev = "call" /\ log[a + 1].j = log[a].j + 1
                \/ log[a + 1].ev = "cm_ok"
          /\ (log[a].ev = "cm_ok" /\ a < Len(log)
                /\ log[a].list \in {"file_pre_create_hooks", "file_pre_edit_hooks"}) =>
                log[a + 1].ev = "open"

\* C9 as stated: an exit status does not fail call, and only a render, a
\* destination-file, a spawn or a stdin-pipe failure does
C9_Original ==
    /\ C9_ExitIsNoFailure
    /\ \A a \in Idx :
          log[a].ev = "ret_err" => log[a].at \in {"args", "stdout", "stderr", "spawn", "stdin"}

\* C9 as amended: an exit status does not fail call; a render, a
\* destination-file, a spawn or a stdin-pipe failure does, and so does a
\* failure of wait itself, which yields no exit status
C9_ExitStatus ==
    /\ C9_ExitIsNoFailure
    /\ \A a \in Idx :
          log[a].ev = "ret_err" =>
              /\ log[a].at \in {"args", "stdout", "stderr", "spawn", "stdin", "wait"}
              /\ log[a].at = "wait" => (a > 1 /\ log[a - 1].ev # "wait")

\* put is about to open the file after its last pre hook was killed by a signal
C9_Witness == pc = "open" /\ hk.status = "signal"

\* C10: when call returns, and so when put returns, every hook process that
\* was spawned has exited and been waited for
C10_AllWaited ==
    (pc = "returned" \/ (pc = "call_multiple" /\ hk.step = "ret")) =>
        \A n \in 1..Len(procs) : procs[n].state = "waited"

\* the FileData of a (kind, format) as the file layout defines it
C11_FileData(k, fmt) ==
    LET ext == IF fmt = "Pem" THEN "pem" ELSE "der"
        dir == IF k = "AccountPrivateKey" THEN cfg.account_directory
               ELSE cfg.crt_directory
        name == CASE k = "Certificate" ->
                        <<cfg.crt_name, "_", cfg.algo, ".", "crt", ".", ext>>
                  [] k = "PrivateKey" ->
                        <<cfg.crt_name, "_", cfg.algo, ".", "pk", ".", ext>>
                  [] k = "AccountPrivateKey" -> <<cfg.account_name, ".", ext>>
    IN [file_directory |-> dir, file_name |-> name, file_path |-> <<dir, "/">> \o name]

\* C11: the FileData of a (kind, format) is the one the file layout defines,
\* from the configured names alone; every step of put on the i-th format and
\* every get_file of a format work on that path, whatever is stored, whatever
\* was done before
C11_PathPure ==
    /\ \A k \in Kinds, fmt \in Formats : get_file_path(cfg, k, fmt) = C11_FileData(k, fmt)
    /\ \A a \in Idx :
          log[a].path = C11_FileData(kind, cfg.formats[log[a].i]).file_path
    /\ got.op # "-" => got.path = C11_FileData(got.kind, got.src_fmt).file_path
    /\ \A p \in DOMAIN fs :
          fs[p].exists =>
              \E n \in 1..Len(cfg.formats) :
                  p = C11_FileData(kind, cfg.formats[n]).file_path

\* get has returned the account key that put stored in the account directory
C11_Witness ==
    /\ kind = "AccountPrivateKey"
    /\ put.result = "Ok"
    /\ got.op = "get" /\ got.tag = "some" /\ got.bytes = put.value
    /\ got.path = <<"/etc/acmed/accounts", "/", "account", ".", "pem">>

PreLists == {"file_pre_create_hooks", "file_pre_edit_hooks"}
PostLists == {"file_post_create_hooks", "file_post_edit_hooks"}
FileEvents == {"open", "write", "sync", "chown"}

\* C12: when the pre hooks of the i-th format fail, put returns the error of
\* the hook that failed at once: nothing was opened or written and no post
\* hook was called for that format, no later format was looked at, and no
\* file has changed since the iteration began
C12_PreHookAborts ==
    /\ [](\A a \in Idx :
            (log[a].ev = "cm_err" /\ log[a].list \in PreLists) =>
                /\ a = Len(log) /\ a > 1
                /\ log[a - 1].ev = "ret_err" /\ log[a - 1].err = log[a].err
                /\ pc = "returned" /\ put.result = "Err" /\ put.err = log[a].err
                /\ log[a].i = put.i
                /\ \A b \in Idx :
                      /\ log[b].i <= put.i
                      /\ log[b].i = put.i =>
                            (log[b].ev \notin FileEvents /\ log[b].list \notin PostLists))
    /\ [][(pc = "for" \/ pc = "returned" \/ (pc = "call_multiple" /\ hk.phase = "pre"))
             => fs' = fs]_vars

\* a put of two formats has failed in the pre-edit hooks of the first: the
\* file still holds what an earlier put wrote
C12_Witness ==
    /\ pc = "returned" /\ put.result = "Err" /\ put.i = 1
    /\ Len(cfg.formats) = 2
    /\ Len(log) > 0
    /\ log[Len(log)].ev = "cm_err" /\ log[Len(log)].list = "file_pre_edit_hooks"
    /\ fs[PathOf(kind, cfg.formats[1])].exists
    /\ fs[PathOf(kind, cfg.formats[1])].content # BytesFor(cfg.formats[1], put.value).val

\* what holds of a put while it runs and when it has returned: an error
\* returns at once, from within the iteration of some format k, with nothing
\* done for a later format; the file of every format before the one in
\* progress is there and begins with the bytes this put wrote to it
C13_Done ==
    /\ put.result = "Err" => pc \in {"returned", "idle"}
    /\ (pc = "returned" /\ put.result = "Err") =>
          /\ put.i \in 1..Len(cfg.formats)
          /\ put.err # "-"
          /\ \A a \in Idx : log[a].i <= put.i
          /\ \A a \in Idx : log[a].ev \in {"ret_err", "cm_err"} =>
                (a >= Len(log) - 1 /\ log[a].err = put.err)
    /\ (pc = "returned" /\ put.result = "Ok") => put.i = Len(cfg.formats) + 1
    /\ (pc # "idle" /\ put.i >= 1) =>
          \A j \in 1..(put.i - 1) :
              LET f == fs[PathOf(kind, cfg.formats[j])] IN
              /\ f.exists
              /\ IsPrefix(BytesFor(cfg.formats[j], put.value).val, f.content)

\* a step changes no file but the one of the format in progress, and that one
\* only when it opens, writes or chowns it
C13_StepFrame ==
    fs' # fs =>
        /\ pc \in {"open", "write", "set_owner"}
        /\ put.i \in 1..Len(cfg.formats)
        /\ \A p \in DOMAIN fs : p # CurPath => fs'[p] = fs[p]

\* the step by which put returns an error
C13_Fails == pc # "returned" /\ pc' = "returned" /\ put'.result = "Err"

\* a write_all that fails after it wrote a part of the bytes: the head of the
\* file of the format in progress is overwritten, nothing else changes
C13_TornWrite ==
    /\ pc = "write"
    /\ BytesFor(CurFmt, put.value).ok
    /\ \E n \in 1..(Len(BytesFor(CurFmt, put.value).val) - 1) :
          fs' = [fs EXCEPT ![CurPath].content =
                               WriteAt0(@, SubSeq(BytesFor(CurFmt, put.value).val, 1, n))]

\* C13 as stated: a failure for the k-th format returns the first error, the
\* files of the formats before k keep what this put wrote, those of the
\* formats after k are untouched, and the step that fails changes nothing:
\* the file of format k is as the last completed step left it
C13_Original ==
    /\ []C13_Done
    /\ [][C13_StepFrame /\ (C13_Fails => fs' = fs)]_vars

\* C13 as amended: the same, but a write that fails may have overwritten the
\* head of the file of format k with a part of the new bytes
C13_NoRollback ==
    /\ []C13_Done
    /\ [][C13_StepFrame /\ (C13_Fails => (fs' = fs \/ C13_TornWrite))]_vars

\* a put of two formats has failed in the write of the second, after a part
\* of the bytes was written: the first file holds the whole value
C13_Witness ==
    /\ pc = "returned" /\ put.result = "Err" /\ put.err = "io" /\ put.i = 2
    /\ Len(cfg.formats) = 2
    /\ Len(log) > 0 /\ log[Len(log)].ev = "open"
    /\ fs[PathOf(kind, cfg.formats[1])].content = BytesFor(cfg.formats[1], put.value).val
    /\ fs[PathOf(kind, cfg.formats[2])].content # <<>>
    /\ fs[PathOf(kind, cfg.formats[2])].content # BytesFor(cfg.formats[2], put.value).val

\* the place of an entry of the history in the steps of put for one format
C14_Rank(e) ==
    CASE e.ev = "target" -> 0
      [] e.list \in PreLists -> 1
      [] e.ev = "open" -> 2
      [] e.ev = "write" -> 3
      [] e.ev = "sync" -> 4
      [] e.ev = "chown" -> 5
      [] e.list \in PostLists -> 6

\* every hook process spawned so far has exited and been waited for
C14_AllExited == \A n \in 1..Len(procs) : procs[n].state = "waited"

\* C14: for each format, put runs the pre hooks, then opens, writes and syncs
\* the file, then applies the ownership, then runs the post hooks, each step
\* once and right after the one before; the file is touched only after every
\* pre hook has exited, and a post hook is called only after the sync and the
\* chown
C14_StepOrder ==
    /\ [](/\ \A a, b \in Idx :
                a < b =>
                    (/\ log[a].i <= log[b].i
                     /\ (log[a].i = log[b].i) =>
                           (C14_Rank(log[a]) <= C14_Rank(log[b]))
                     /\ (log[a].i = log[b].i /\ log[a].ev \in FileEvents) =>
                           (log[a].ev # log[b].ev))
          /\ \A a \in Idx :
                /\ log[a].ev = "open" =>
                      (a > 1 /\ log[a - 1].ev = "cm_ok" /\ log[a - 1].list \in PreLists)
                /\ log[a].ev = "write" => (a > 1 /\ log[a - 1].ev = "open")
                /\ log[a].ev = "sync" => (a > 1 /\ log[a - 1].ev = "write")
                /\ log[a].ev = "chown" => (a > 1 /\ log[a - 1].ev = "sync")
                /\ (log[a].ev = "cm_begin" /\ log[a].list \in PostLists) =>
                      (a > 1 /\ log[a - 1].ev = "chown")
                /\ (log[a].ev = "call" /\ log[a].list \in PostLists) =>
                      \E s, c \in 1..(a - 1) :
                          /\ s < c
                          /\ log[s].ev = "sync" /\ log[s].i = log[a].i
                          /\ log[c].ev = "chown" /\ log[c].i = log[a].i
          /\ pc \in {"open", "write", "sync", "set_owner"} => C14_AllExited)
    /\ [][fs' # fs => (pc \in {"open", "write", "set_owner"} /\ C14_AllExited)]_vars

\* a put has succeeded whose pre and post lists hold two hooks each: the four
\* processes have exited, the file holds the value
C14_Witness ==
    /\ PutReturnedOk
    /\ Len(cfg.file_pre_create_hooks) = 2 /\ Len(cfg.file_post_create_hooks) = 2
    /\ Len(procs) = 4 /\ C14_AllExited
    /\ fs[PathOf(kind, cfg.formats[1])].content = put.value

\* C15: when two puts to the same path have run at the same time and both
\* have succeeded, the file holds exactly the value of the one whose
\* write-then-sync completed last
C15_LastSyncWins ==
    (/\ ctx.some
     /\ PutReturnedOk
     /\ ctx.v.pc = "returned" /\ ctx.v.put.result = "Ok"
     /\ Len(synced) = 2)
        => fs[synced[2].path].content = synced[2].value

\* a configured owner or group that consists of ASCII digits only
C16_AllDigits(opt) == opt.some /\ \A n \in 1..Len(opt.v) : opt.v[n] \in Digits

\* C16: set_owner does not abort on an owner or group made of digits only,
\* the empty string and the numbers beyond 32 bits included; when its chown
\* succeeds, the file's owner and group are the numbers the strings denote
C16_DigitStringsConverted ==
    [][(pc = "set_owner" /\ C16_AllDigits(ClassOwner) /\ C16_AllDigits(ClassGroup)) =>
          /\ pc' # "panicked"
          /\ pc' = "call_multiple" =>
                /\ ClassOwner.v # <<>> => fs'[CurPath].uid = StripZeros(ClassOwner.v)
                /\ ClassGroup.v # <<>> => fs'[CurPath].gid = StripZeros(ClassGroup.v)
      ]_vars

EditLists == {"file_pre_edit_hooks", "file_post_edit_hooks"}

\* C17 as stated: a hook of an edit list is called for a file only after the
\* post-create hooks have completed for it
C17_Original ==
    \A a \in Idx :
        (log[a].ev = "call" /\ log[a].list \in EditLists) =>
            life[log[a].path] = "created"

\* C17 as amended: a hook of an edit list is called for a file only after a
\* put has opened it. A put takes the edit lists exactly when the file exists
\* at the head of the iteration, which is so once a put has opened it,
\* whatever became of that put afterwards, and is not so as long as every put
\* has failed before its open
C17_EditOnceOpened ==
    /\ \A a \in Idx :
          (log[a].ev = "call" /\ log[a].list \in EditLists) =>
              life[log[a].path] \in {"opened", "created"}
    /\ pc = "call_multiple" => (hk.list \in EditLists <=> put.file_exists)
    /\ (pc = "call_multiple" /\ hk.phase = "pre") =>
          (put.file_exists <=> life[CurPath] \in {"opened", "created"})

\* a put calls the pre-create hook of a file that an earlier put failed to
\* create
C17_Witness ==
    /\ pc = "call_multiple" /\ hk.list = "file_pre_create_hooks" /\ hk.step = "args"
    /\ life[CurPath] = "failed"

\* C18: a step of get_file, whatever it returns, leaves every file as it is
\* (content, mode, owner and group, no file created), leaves the Storage as it
\* is and calls no hook
C18_GetReadOnly ==
    [][(pc' = "idle" /\ got'.op # "-") =>
          /\ got'.tag \in {"none", "some", "err"}
          /\ fs' = fs
          /\ cfg' = cfg /\ umask' = umask
          /\ procs' = <<>>
          /\ \A a \in 1..Len(log') : log'[a].ev # "call"
      ]_vars

\* after a put that succeeded, a get of a file that is not stored has
\* answered absent and the file is still not there
C18_Witness ==
    /\ pc = "idle" /\ put.result = "Ok"
    /\ got.tag = "none" /\ ~fs[got.path].exists

\* within one put no hook is called twice for the same format and no file is
\* opened or written twice; after a failure nothing more is done
C19_NoRetry ==
    /\ \A a, b \in Idx :
          (a < b /\ log[a].i = log[b].i /\ log[a].ev = log[b].ev
                 /\ log[a].ev \in {"call", "spawn", "open", "write", "sync", "chown"}) =>
              (log[a].list # log[b].list \/ log[a].j # log[b].j)
    /\ \A a \in Idx :
          /\ log[a].ev = "call" =>
                (log[a].list \in {PreHooks(log[a].existed), PostHooks(log[a].existed)}
                 /\ log[a].j \in 1..Len(HookList(log[a].list)))
          /\ log[a].ev = "ret_err" =>
                (a = Len(log) \/ (a = Len(log) - 1 /\ log[a + 1].ev = "cm_err"))

\* C19: a put that has begun returns, given that the hook processes it waits
\* for exit; on its way it calls each hook of the selected lists at most once
\* for each format, writes each file at most once and retries nothing
C19_PutTerminates ==
    /\ []C19_NoRetry
    /\ (pc \notin {"idle", "returned"}) ~> (pc = "returned")

====
